---- MODULE Spec2Model ----
(***************************************************************************)
(* Trace analysis tools of the Ceres test runner:                          *)
(*   ceres-test-runner/analyze_trace.py   (top-level entry schema)         *)
(*   ceres-test-runner/analyze_traces.py  (entry schema nested in 'fields')*)
(*                                                                         *)
(* Every analysis function is an operator that computes what the function  *)
(* prints (as a structured value) together with the way it ends: "ok" or   *)
(* the name of the Python exception it raises.  Instruction texts are      *)
(* sequences of one-character strings, so that split(), upper() and the    *)
(* substring test are computed and not assumed.                            *)
(***************************************************************************)
EXTENDS Integers, Sequences, FiniteSets, TLC

VARIABLES trace, cli, pc, call, result, outcome

vars == <<trace, cli, pc, call, result, outcome>>

(***************************************************************************)
(* Bounds of the model.                                                    *)
(***************************************************************************)
MaxLen == 3        \* longest exhaustively enumerated trace
MaxLong == 11      \* longest trace given to the windowed detector
MaxRamp == 11      \* most distinct program counters in a ramp trace
MaxThreshold == 3  \* largest min_iterations / min_repeats / top_n tried

(***************************************************************************)
(* Python helpers: mappings, slices, strings.                              *)
(***************************************************************************)
HasKey(d, k) == k \in DOMAIN d

Min(a, b) == IF a <= b THEN a ELSE b

Max(a, b) == IF a >= b THEN a ELSE b

\* seq[start:] of Python; a negative start counts from the end.
SliceFrom(seq, start) ==
    LET n == Len(seq)
        s == IF start < 0 THEN Max(n + start, 0) ELSE Min(start, n)
    IN  SubSeq(seq, s + 1, n)

\* seq[:stop] of Python for stop >= 0.
SliceTo(seq, stop) == SubSeq(seq, 1, Min(stop, Len(seq)))

\* str.upper() on the letters the traces use.
UpperChar(c) ==
    CASE c = "j" -> "J"
      [] c = "p" -> "P"
      [] c = "l" -> "L"
      [] c = "d" -> "D"
      [] OTHER -> c

Upper(s) == [i \in 1..Len(s) |-> UpperChar(s[i])]

\* needle in text, for strings.
Contains(text, needle) ==
    \E off \in 0..(Len(text) - Len(needle)) :
        \A k \in 1..Len(needle) : text[off + k] = needle[k]

IsSpace(c) == c = " "

\* str.split()[0]: the first whitespace-delimited token; <<>> stands for
\* "no token" (split() returned the empty list).
RECURSIVE SkipSpaces(_)
SkipSpaces(s) ==
    IF s = <<>> THEN <<>>
    ELSE IF IsSpace(Head(s)) THEN SkipSpaces(Tail(s)) ELSE s

RECURSIVE TakeUntil(_, _)
TakeUntil(s, stop) ==
    IF s = <<>> \/ Head(s) = stop THEN <<>>
    ELSE <<Head(s)>> \o TakeUntil(Tail(s), stop)

FirstToken(s) == TakeUntil(SkipSpaces(s), " ")

\* token.split(',')[0]: the part before the first comma.
BeforeComma(token) == TakeUntil(token, ",")

(***************************************************************************)
(* analyze_trace.py                                                        *)
(***************************************************************************)
NoResult == [kind |-> "none"]

RegisterKeys == {"a", "f", "b", "c", "d", "e", "h", "l", "sp"}

\* print_entry: the entry is printed iff the keys it reads are present.
PrintableEntry(entry, show_registers) ==
    /\ HasKey(entry, "pc")
    /\ HasKey(entry, "instruction")
    /\ HasKey(entry, "cycles")
    /\ show_registers =>
          /\ HasKey(entry, "registers")
          /\ RegisterKeys \subseteq DOMAIN entry.registers

PrintedEntry(entry, show_registers) ==
    IF show_registers
    THEN [pc |-> entry.pc, instruction |-> entry.instruction,
          cycles |-> entry.cycles, registers |-> entry.registers]
    ELSE [pc |-> entry.pc, instruction |-> entry.instruction,
          cycles |-> entry.cycles]

\* The loop "for entry in entries: print_entry(entry, show_registers)":
\* the rows printed before the first entry that raises KeyError.
RECURSIVE PrintEntries(_, _)
PrintEntries(entries, show_registers) ==
    IF entries = <<>> THEN [rows |-> <<>>, outcome |-> "ok"]
    ELSE IF ~PrintableEntry(Head(entries), show_registers)
         THEN [rows |-> <<>>, outcome |-> "KeyError"]
         ELSE LET rest == PrintEntries(Tail(entries), show_registers)
              IN  [rows |-> <<PrintedEntry(Head(entries), show_registers)>>
                              \o rest.rows,
                   outcome |-> rest.outcome]

LastCount(entries, n) == Min(n, Len(entries))

LastSlice(entries, n) == SliceFrom(entries, -LastCount(entries, n))

show_last_n(t, n, show_registers) ==
    LET printed == PrintEntries(LastSlice(t.entries, n), show_registers)
    IN  [outcome |-> printed.outcome,
         result |-> [kind |-> "last", header |-> LastCount(t.entries, n),
                     rows |-> printed.rows]]

\* find_instruction: the comprehension reads e['instruction'] of every entry.
find_instruction(t, mnemonic, show_registers) ==
    IF \E i \in 1..Len(t.entries) : ~HasKey(t.entries[i], "instruction")
    THEN [outcome |-> "KeyError", result |-> NoResult]
    ELSE LET entries == SelectSeq(t.entries,
                 LAMBDA e : Contains(Upper(e.instruction), Upper(mnemonic)))
             printed == PrintEntries(entries, show_registers)
         IN  [outcome |-> printed.outcome,
              result |-> [kind |-> "inst", header |-> Len(entries),
                          rows |-> printed.rows]]

\* show_range: the comprehension reads e['pc'] of every entry.
show_range(t, start_pc, end_pc, show_registers) ==
    IF \E i \in 1..Len(t.entries) : ~HasKey(t.entries[i], "pc")
    THEN [outcome |-> "KeyError", result |-> NoResult]
    ELSE LET entries == SelectSeq(t.entries,
                 LAMBDA e : start_pc <= e.pc /\ e.pc <= end_pc)
             printed == PrintEntries(entries, show_registers)
         IN  [outcome |-> printed.outcome,
              result |-> [kind |-> "range", header |-> Len(entries),
                          rows |-> printed.rows]]

\* entry['instruction'].split()[0].split(',')[0]
Mnemonic(instruction) == BeforeComma(FirstToken(instruction))

\* How the extraction loop of show_histogram ends: KeyError at an entry
\* without 'instruction', IndexError at one whose text has no token.
RECURSIVE ExtractOutcome(_)
ExtractOutcome(entries) ==
    IF entries = <<>> THEN "ok"
    ELSE IF ~HasKey(Head(entries), "instruction") THEN "KeyError"
    ELSE IF FirstToken(Head(entries).instruction) = <<>> THEN "IndexError"
    ELSE ExtractOutcome(Tail(entries))

\* collections.Counter as the sequence of its items in insertion order
\* (the order in which the keys were first encountered).
CounterIncr(counter, key) ==
    IF \E i \in 1..Len(counter) : counter[i].key = key
    THEN [i \in 1..Len(counter) |->
             IF counter[i].key = key
             THEN [key |-> key, count |-> counter[i].count + 1]
             ELSE counter[i]]
    ELSE Append(counter, [key |-> key, count |-> 1])

RECURSIVE CounterFrom(_, _)
CounterFrom(counter, items) ==
    IF items = <<>> THEN counter
    ELSE CounterFrom(CounterIncr(counter, Head(items)), Tail(items))

Counter(items) == CounterFrom(<<>>, items)

\* sort(key = count, reverse = True): stable, so an item goes behind every
\* item whose count is at least its own.
InsertByCount(sorted, item) ==
    LET k == Cardinality({i \in 1..Len(sorted) : sorted[i].count >= item.count})
    IN  SubSeq(sorted, 1, k) \o <<item>> \o SubSeq(sorted, k + 1, Len(sorted))

RECURSIVE SortFrom(_, _)
SortFrom(sorted, items) ==
    IF items = <<>> THEN sorted
    ELSE SortFrom(InsertByCount(sorted, Head(items)), Tail(items))

SortByCountDesc(items) == SortFrom(<<>>, items)

\* MostCommon with the truncation applied before the ranking.
MostCommonTruncatedFirst(counter, n) ==
    IF n <= 0 THEN <<>> ELSE SortByCountDesc(SliceTo(counter, n))

\* Counter.most_common(n) for an integer n: no item for n <= 0.
MostCommon(counter, n) ==
    IF n <= 0 THEN <<>> ELSE SliceTo(SortByCountDesc(counter), n)

\* (count / total) * 100 as the exact fraction num / den.
Percentage(count, total) == [num |-> count * 100, den |-> total]

\* Divides with the division hoisted out of the row loop.
DividesAlways(rows) == TRUE

\* Whether show_histogram evaluates count / total: once per printed row.
Divides(rows) == rows # <<>>

show_histogram(t, top_n) ==
    LET extract == ExtractOutcome(t.entries)
    IN  IF extract # "ok" THEN [outcome |-> extract, result |-> NoResult]
        ELSE
        LET instructions == [i \in 1..Len(t.entries) |->
                                 Mnemonic(t.entries[i].instruction)]
            total == Len(instructions)
            common == MostCommon(Counter(instructions), top_n)
        IN  IF Divides(common) /\ total = 0
            THEN [outcome |-> "ZeroDivisionError",
                  result |-> [kind |-> "histogram", header |-> top_n,
                              rows |-> <<>>, total |-> total]]
            ELSE [outcome |-> "ok",
                  result |-> [kind |-> "histogram", header |-> top_n,
                      rows |-> [i \in 1..Len(common) |->
                                  [inst |-> common[i].key,
                                   count |-> common[i].count,
                                   percentage |->
                                       Percentage(common[i].count, total)]],
                      total |-> total]]

WindowSize == 5

MinEntries == 10

\* range(len(entries) - window_size)
WindowStarts(entries) == 0..(Len(entries) - WindowSize - 1)

\* tuple(e['pc'] for e in entries[i:i+window_size]), i counted from 0
WindowAt(entries, i) ==
    LET window == SubSeq(entries, i + 1, Min(i + WindowSize, Len(entries)))
    IN  [k \in 1..Len(window) |-> window[k].pc]

\* sequences: Dict[tuple, List[int]] in insertion order.
RecordWindow(sequences, seq, i) ==
    IF \E k \in 1..Len(sequences) : sequences[k].seq = seq
    THEN [k \in 1..Len(sequences) |->
             IF sequences[k].seq = seq
             THEN [seq |-> seq,
                   positions |-> Append(sequences[k].positions, i)]
             ELSE sequences[k]]
    ELSE Append(sequences, [seq |-> seq, positions |-> <<i>>])

RECURSIVE TrackFrom(_, _, _)
TrackFrom(sequences, entries, i) ==
    IF i \notin WindowStarts(entries) THEN sequences
    ELSE TrackFrom(RecordWindow(sequences, WindowAt(entries, i), i),
                   entries, i + 1)

TrackSequences(entries) == TrackFrom(<<>>, entries, 0)

\* Repeats with the threshold off by one.
RepeatsOffByOne(positions, min_iterations) ==
    Len(positions) + 1 >= min_iterations

\* len(positions) >= min_iterations
Repeats(positions, min_iterations) == Len(positions) >= min_iterations

LoopReport(item) ==
    [positions |-> SliceTo(item.positions, 5),
     more |-> Len(item.positions) > 5,
     seq |-> item.seq,
     iterations |-> Len(item.positions)]

detect_loops(t, min_iterations) ==
    LET entries == t.entries
    IN  IF Len(entries) < MinEntries
        THEN [outcome |-> "ok", result |-> NoResult]
        ELSE IF \E i \in WindowStarts(entries) :
                   \E k \in (i + 1)..(i + WindowSize) :
                       ~HasKey(entries[k], "pc")
        THEN [outcome |-> "KeyError",
              result |-> [kind |-> "loops", header |-> min_iterations,
                          sequences |-> <<>>, loops |-> <<>>,
                          no_loops |-> FALSE]]
        ELSE LET sequences == TrackSequences(entries)
                 found == SelectSeq(sequences,
                     LAMBDA item : Repeats(item.positions, min_iterations))
             IN  [outcome |-> "ok",
                  result |-> [kind |-> "loops", header |-> min_iterations,
                      sequences |-> sequences,
                      loops |-> [k \in 1..Len(found) |-> LoopReport(found[k])],
                      no_loops |-> found = <<>>]]

\* show_metadata: the usage line divides entry_count by buffer_capacity
\* after the three lines before it were printed.
show_metadata(t) ==
    LET meta == t.metadata
    IN  IF meta.buffer_capacity = 0
        THEN [outcome |-> "ZeroDivisionError",
              result |-> [kind |-> "metadata",
                          timestamp |-> meta.timestamp,
                          entry_count |-> meta.entry_count,
                          buffer_capacity |-> meta.buffer_capacity]]
        ELSE [outcome |-> "ok",
              result |-> [kind |-> "metadata",
                          timestamp |-> meta.timestamp,
                          entry_count |-> meta.entry_count,
                          buffer_capacity |-> meta.buffer_capacity,
                          usage |-> Percentage(meta.entry_count,
                                               meta.buffer_capacity)]]

(***************************************************************************)
(* analyze_traces.py                                                       *)
(***************************************************************************)
Unknown == <<"U", "n", "k", "n", "o", "w", "n">>

\* trace.get('entries', [])
EntriesOf(t) == IF HasKey(t, "entries") THEN t.entries ELSE <<>>

\* 'fields' in entry and key in entry['fields']
HasField(entry, key) == HasKey(entry, "fields") /\ HasKey(entry.fields, key)

\* fields.get(key, default)
GetField(fields, key, default) ==
    IF HasKey(fields, key) THEN fields[key] ELSE default

AddressLimit == 20

find_address_range(t, start_addr, end_addr) ==
    LET matching == SelectSeq(EntriesOf(t),
            LAMBDA e : /\ HasField(e, "pc")
                       /\ e.fields.pc \in Int
                       /\ start_addr <= e.fields.pc
                       /\ e.fields.pc <= end_addr)
        shown == SliceTo(matching, AddressLimit)
    IN  [outcome |-> "ok",
         result |-> [kind |-> "address_range",
             matching |-> matching,
             rows |-> [i \in 1..Len(shown) |->
                         [pc |-> shown[i].fields.pc,
                          instruction |-> GetField(shown[i].fields,
                                                   "instruction", Unknown)]],
             more |-> Max(Len(matching) - AddressLimit, 0)]]

\* Counter of the 'pc' of every entry that has one.
PcCounts(entries) ==
    LET withPc == SelectSeq(entries, LAMBDA e : HasField(e, "pc"))
    IN  Counter([i \in 1..Len(withPc) |-> withPc[i].fields.pc])

\* Hot with a strict comparison.
HotStrict(count, min_repeats) == count > min_repeats

\* count >= min_repeats
Hot(count, min_repeats) == count >= min_repeats

\* The instruction text of the first entry at this pc.
FirstInstructionAt(entries, p) ==
    LET first == CHOOSE i \in 1..Len(entries) :
                     /\ HasField(entries[i], "pc") /\ entries[i].fields.pc = p
                     /\ \A j \in 1..(i - 1) :
                          ~(HasField(entries[j], "pc")
                            /\ entries[j].fields.pc = p)
    IN  GetField(entries[first].fields, "instruction", Unknown)

LoopLimit == 10

\* loops[:10]
ReportedLoops(loops) == SliceTo(loops, LoopLimit)

find_loops(t, min_repeats) ==
    LET entries == EntriesOf(t)
        loops == SortByCountDesc(SelectSeq(PcCounts(entries),
                     LAMBDA item : Hot(item.count, min_repeats)))
        shown == ReportedLoops(loops)
    IN  [outcome |-> "ok",
         result |-> [kind |-> "find_loops", header |-> min_repeats,
             loops |-> loops,
             rows |-> [i \in 1..Len(shown) |->
                         [pc |-> shown[i].key,
                          instruction |->
                              FirstInstructionAt(entries, shown[i].key),
                          count |-> shown[i].count]]]]

ChangeLimit == 20

\* RegisterSamples keeping a sample only when the value changed.
RECURSIVE ChangedSamples(_, _, _, _)
ChangedSamples(entries, reg, seen, last) ==
    IF entries = <<>> THEN <<>>
    ELSE IF HasField(Head(entries), reg)
         THEN LET value == Head(entries).fields[reg]
                  rest == ChangedSamples(Tail(entries), reg, TRUE, value)
              IN  IF seen /\ value = last THEN rest
                  ELSE <<[pc |-> GetField(Head(entries).fields, "pc", 0),
                          value |-> value,
                          instruction |-> GetField(Head(entries).fields,
                                                   "instruction", Unknown)]>>
                       \o rest
         ELSE ChangedSamples(Tail(entries), reg, seen, last)

RegisterSamplesChanged(entries, reg) == ChangedSamples(entries, reg, FALSE, 0)

\* The (pc, value, instruction) tuples analyze_register_changes collects.
RECURSIVE RegisterSamples(_, _)
RegisterSamples(entries, reg) ==
    IF entries = <<>> THEN <<>>
    ELSE IF HasField(Head(entries), reg)
         THEN <<[pc |-> GetField(Head(entries).fields, "pc", 0),
                 value |-> Head(entries).fields[reg],
                 instruction |-> GetField(Head(entries).fields,
                                          "instruction", Unknown)]>>
              \o RegisterSamples(Tail(entries), reg)
         ELSE RegisterSamples(Tail(entries), reg)

analyze_register_changes(t, reg) ==
    LET changes == RegisterSamples(EntriesOf(t), reg)
    IN  [outcome |-> "ok",
         result |-> [kind |-> "register", header |-> reg,
                     changes |-> changes,
                     rows |-> SliceTo(changes, ChangeLimit),
                     more |-> Max(Len(changes) - ChangeLimit, 0)]]

\* choices of the --register option
RegisterChoices == {"a", "f", "b", "c", "d", "e", "h", "l"}

(***************************************************************************)
(* Input traces.                                                           *)
(***************************************************************************)
JP1 == <<"J", "P", " ", "1">>

LDAB == <<"L", "D", " ", "A", ",", "B">>

LDB == <<"L", "D", ",", "B">>

jp == <<"j", "p">>

Blank == <<" ">>

Registers ==
    [a |-> 1, f |-> 0, b |-> 0, c |-> 0, d |-> 0, e |-> 0, h |-> 0, l |-> 0,
     sp |-> 0]

FullEntry(p, text) ==
    [pc |-> p, instruction |-> text, cycles |-> 4, registers |-> Registers]

\* An entry without 'pc' and one without 'instruction'.
NoPcEntry == [instruction |-> JP1, cycles |-> 4, registers |-> Registers]

NoInstructionEntry == [pc |-> 1, cycles |-> 4, registers |-> Registers]

\* Entries in the schema of analyze_trace.py.
TopLevelEntries ==
    { FullEntry(1, JP1), FullEntry(2, JP1), FullEntry(1, LDAB),
      FullEntry(2, LDB), FullEntry(1, jp), FullEntry(1, Blank),
      NoPcEntry, NoInstructionEntry }

\* Entries in the schema of analyze_traces.py.
NestedEntries ==
    { [fields |-> [pc |-> 1, instruction |-> JP1, a |-> 0]],
      [fields |-> [pc |-> 1, instruction |-> JP1, a |-> 1]],
      [fields |-> [pc |-> 2, instruction |-> LDAB, a |-> 1]],
      [fields |-> [pc |-> 2, instruction |-> LDAB]],
      [fields |-> [pc |-> 1]],
      [fields |-> [a |-> 0, sp |-> 0]],
      [fields |-> [instruction |-> JP1]],
      FullEntry(1, JP1) }

SeqsUpTo(S, n) == UNION { [1..k -> S] : k \in 0..n }

Capacity == 4

Loaded(entries) ==
    [metadata |-> [timestamp |-> 0, entry_count |-> Len(entries),
                   buffer_capacity |-> Capacity],
     entries |-> entries]

\* Traces long enough for the windowed detector: every pc sequence over
\* {1, 2}, and the all-ones trace with one entry lacking its pc.
LongEntries ==
    (UNION { [1..k -> {FullEntry(1, JP1), FullEntry(2, JP1)}] :
                 k \in MinEntries..MaxLong })
    \cup { [i \in 1..MinEntries |->
               IF i = k THEN NoPcEntry ELSE FullEntry(1, JP1)] :
           k \in 1..MinEntries }

\* pcs lo..hi in ascending order, in the nested schema.
Ramp(lo, hi) ==
    [i \in 1..(hi - lo + 1) |->
        [fields |-> [pc |-> lo + i - 1, instruction |-> JP1,
                     a |-> (lo + i) % 2]]]

\* pcs 1..k followed by pcs m..k again: many distinct pcs, the later ones
\* with the higher counts.
RampEntries ==
    { Ramp(1, k) \o Ramp(m, k) : k \in 0..MaxRamp, m \in 1..(MaxRamp + 1) }

Traces ==
    { Loaded(entries) : entries \in SeqsUpTo(TopLevelEntries, MaxLen)
                                    \cup SeqsUpTo(NestedEntries, MaxLen)
                                    \cup LongEntries \cup RampEntries }

Ns == ((-2)..(MaxLen + 1)) \cup {5}

Needles == {jp, <<"L", "D", " ">>}

Addresses == 1..2

Thresholds == 0..MaxThreshold

Tops == (-1)..MaxThreshold

RegisterNames == {"a", "b", "z", "pc", "sp"}

(***************************************************************************)
(* The analysis functions called on a loaded trace.                        *)
(***************************************************************************)
NoCli == [given |-> FALSE]

Init ==
    /\ trace \in Traces
    /\ cli = NoCli
    /\ pc = "idle"
    /\ call = [op |-> "none"]
    /\ result = NoResult
    /\ outcome = "none"

Return(c, r) ==
    /\ pc = "idle"
    /\ pc' = "returned"
    /\ call' = c
    /\ result' = r.result
    /\ outcome' = r.outcome
    /\ UNCHANGED <<trace, cli>>

CallShowLastN ==
    \E n \in Ns, sr \in BOOLEAN :
        Return([op |-> "show_last_n", n |-> n, show_registers |-> sr],
               show_last_n(trace, n, sr))

CallFindInstruction ==
    \E m \in Needles, sr \in BOOLEAN :
        Return([op |-> "find_instruction", mnemonic |-> m,
                show_registers |-> sr],
               find_instruction(trace, m, sr))

CallShowRange ==
    \E s \in Addresses, e \in Addresses, sr \in BOOLEAN :
        Return([op |-> "show_range", start |-> s, end |-> e,
                show_registers |-> sr],
               show_range(trace, s, e, sr))

CallShowHistogram ==
    \E k \in Tops :
        Return([op |-> "show_histogram", top_n |-> k],
               show_histogram(trace, k))

CallDetectLoops ==
    \E m \in Thresholds :
        Return([op |-> "detect_loops", min_iterations |-> m],
               detect_loops(trace, m))

CallFindAddressRange ==
    \E s \in Addresses, e \in Addresses :
        Return([op |-> "find_address_range", start |-> s, end |-> e],
               find_address_range(trace, s, e))

CallFindLoops ==
    \E m \in Thresholds :
        Return([op |-> "find_loops", min_repeats |-> m],
               find_loops(trace, m))

CallRegisterChanges ==
    \E r \in RegisterNames :
        Return([op |-> "analyze_register_changes", reg |-> r],
               analyze_register_changes(trace, r))

Next ==
    \/ CallShowLastN
    \/ CallFindInstruction
    \/ CallShowRange
    \/ CallShowHistogram
    \/ CallDetectLoops
    \/ CallFindAddressRange
    \/ CallFindLoops
    \/ CallRegisterChanges

Spec == Init /\ [][Next]_vars

(***************************************************************************)
(* main of analyze_trace.py: the metadata first, then the commands the     *)
(* command line selects, in the order of the code.  An exception nobody    *)
(* catches ends the run ("crashed"); sys.exit(1) ends it too ("exit").     *)
(***************************************************************************)
MainLen == 1       \* longest enumerated trace of a command-line run

None == [given |-> FALSE]

Some(v) == [given |-> TRUE, value |-> v]

HexDigits ==
    <<"0", "1", "2", "3", "4", "5", "6", "7", "8", "9",
      "a", "b", "c", "d", "e", "f">>

HexDigitsUpper ==
    <<"0", "1", "2", "3", "4", "5", "6", "7", "8", "9",
      "A", "B", "C", "D", "E", "F">>

IsHexDigit(c) ==
    \E i \in 1..16 : HexDigits[i] = c \/ HexDigitsUpper[i] = c

DigitValue(c) ==
    (CHOOSE i \in 1..16 : HexDigits[i] = c \/ HexDigitsUpper[i] = c) - 1

RECURSIVE HexValue(_, _)
HexValue(digits, acc) ==
    IF digits = <<>> THEN acc
    ELSE HexValue(Tail(digits), 16 * acc + DigitValue(Head(digits)))

\* int(text, 16) for an unsigned text with an optional 0x prefix.
ParseHex(text) ==
    LET digits == IF Len(text) >= 2 /\ text[1] = "0" /\ text[2] \in {"x", "X"}
                  THEN SubSeq(text, 3, Len(text)) ELSE text
    IN  IF digits = <<>> \/ \E i \in 1..Len(digits) : ~IsHexDigit(digits[i])
        THEN [ok |-> FALSE]
        ELSE [ok |-> TRUE, value |-> HexValue(digits, 0)]

\* The traces of the command-line runs: the buffer capacity may be 0.
MainTraces ==
    { [metadata |-> [timestamp |-> 0, entry_count |-> Len(entries),
                     buffer_capacity |-> capacity],
       entries |-> entries] :
          entries \in SeqsUpTo(TopLevelEntries, MainLen)
                      \cup { [i \in 1..MinEntries |-> FullEntry(1, JP1)] },
          capacity \in {0, Capacity} }

DefaultTop == 20

DefaultMinIterations == 3

Clis ==
    [given : {TRUE},
     last : {None, Some(0), Some(-1), Some(2)},
     inst : {None, Some(jp)},
     range : {None, Some(<<(<<"1">>), <<"0", "x", "2">>>>),
              Some(<<(<<"z">>), (<<"1">>)>>)},
     histogram : BOOLEAN,
     loops : BOOLEAN,
     no_registers : BOOLEAN,
     top : {DefaultTop}]

InitMain ==
    /\ trace \in MainTraces
    /\ cli \in Clis
    /\ pc = "show_metadata"
    /\ call = [op |-> "none"]
    /\ result = NoResult
    /\ outcome = "none"

\* One command of main: it runs, and the run goes on iff it ended "ok".
Run(c, r, next) ==
    /\ call' = c
    /\ result' = r.result
    /\ outcome' = r.outcome
    /\ pc' = IF r.outcome = "ok" THEN next ELSE "crashed"
    /\ UNCHANGED <<trace, cli>>

Skip(next) ==
    /\ pc' = next
    /\ UNCHANGED <<trace, cli, call, result, outcome>>

MainShowMetadata ==
    /\ pc = "show_metadata"
    /\ Run([op |-> "show_metadata"], show_metadata(trace), "last")

\* if args.last:
MainLast ==
    /\ pc = "last"
    /\ IF cli.last.given /\ cli.last.value # 0
       THEN Run([op |-> "show_last_n", n |-> cli.last.value,
                 show_registers |-> ~cli.no_registers],
                show_last_n(trace, cli.last.value, ~cli.no_registers),
                "inst")
       ELSE Skip("inst")

\* if args.inst:
MainInst ==
    /\ pc = "inst"
    /\ IF cli.inst.given /\ cli.inst.value # <<>>
       THEN Run([op |-> "find_instruction", mnemonic |-> cli.inst.value,
                 show_registers |-> ~cli.no_registers],
                find_instruction(trace, cli.inst.value, ~cli.no_registers),
                "range")
       ELSE Skip("range")

\* if args.range: the two values are parsed as hex numbers; ValueError is
\* reported and the run exits with status 1.
MainRange ==
    /\ pc = "range"
    /\ IF cli.range.given
       THEN LET start == ParseHex(cli.range.value[1])
                end == ParseHex(cli.range.value[2])
            IN  IF start.ok /\ end.ok
                THEN Run([op |-> "show_range", start |-> start.value,
                          end |-> end.value,
                          show_registers |-> ~cli.no_registers],
                         show_range(trace, start.value, end.value,
                                    ~cli.no_registers),
                         "histogram")
                ELSE /\ pc' = "exit"
                     /\ call' = [op |-> "show_range"]
                     /\ result' = NoResult
                     /\ outcome' = "ValueError"
                     /\ UNCHANGED <<trace, cli>>
       ELSE Skip("histogram")

\* if args.histogram:
MainHistogram ==
    /\ pc = "histogram"
    /\ IF cli.histogram
       THEN Run([op |-> "show_histogram", top_n |-> cli.top],
                show_histogram(trace, cli.top), "loops")
       ELSE Skip("loops")

\* if args.loops:
MainLoops ==
    /\ pc = "loops"
    /\ IF cli.loops
       THEN Run([op |-> "detect_loops",
                 min_iterations |-> DefaultMinIterations],
                detect_loops(trace, DefaultMinIterations), "summary")
       ELSE Skip("summary")

\* Without any command the quick start text is printed.
MainSummary ==
    /\ pc = "summary"
    /\ IF ~( \/ (cli.last.given /\ cli.last.value # 0)
             \/ (cli.inst.given /\ cli.inst.value # <<>>)
             \/ cli.range.given
             \/ cli.histogram
             \/ cli.loops )
       THEN /\ call' = [op |-> "summary"]
            /\ result' = [kind |-> "quick_start"]
            /\ outcome' = "ok"
            /\ pc' = "done"
            /\ UNCHANGED <<trace, cli>>
       ELSE Skip("done")

NextMain ==
    \/ MainShowMetadata
    \/ MainLast
    \/ MainInst
    \/ MainRange
    \/ MainHistogram
    \/ MainLoops
    \/ MainSummary

SpecMain == InitMain /\ [][NextMain]_vars

(***************************************************************************)
(* Properties.                                                             *)
(***************************************************************************)
Returned(op) == pc = "returned" /\ call.op = op

\* Every entry has the four fields of the trace data model.
WellFormed(entries) ==
    \A i \in 1..Len(entries) : PrintableEntry(entries[i], TRUE)

\* C1: show_last_n prints exactly min(max(n, 0), len(entries)) entries, the
\* final ones in original order; n <= 0 prints no entry.
C1_LastNCount ==
    (Returned("show_last_n") /\ WellFormed(trace.entries)) =>
        LET entries == trace.entries
            k == Min(Max(call.n, 0), Len(entries))
        IN  /\ outcome = "ok"
            /\ Len(result.rows) = k
            /\ \A i \in 1..k :
                   result.rows[i] =
                       PrintedEntry(entries[Len(entries) - k + i],
                                    call.show_registers)

\* The start positions 0 .. len(entries) - window_size whose window is seq.
WindowsProducing(entries, seq) ==
    { i \in 0..(Len(entries) - WindowSize) : WindowAt(entries, i) = seq }

\* C2: on a trace of at least 2 * window_size entries detect_loops examines
\* the window at every start position from 0 to len(entries) - window_size
\* inclusive, so the count recorded for a PC-tuple is the number of start
\* positions in that whole range producing it.
C2_AllWindowsCounted ==
    (/\ Returned("detect_loops")
     /\ Len(trace.entries) >= 2 * WindowSize
     /\ WellFormed(trace.entries)) =>
        /\ outcome = "ok"
        /\ \A k \in 1..Len(result.sequences) :
               Len(result.sequences[k].positions) =
                   Cardinality(WindowsProducing(trace.entries,
                                                result.sequences[k].seq))
        /\ \A i \in 0..(Len(trace.entries) - WindowSize) :
               \E k \in 1..Len(result.sequences) :
                   result.sequences[k].seq = WindowAt(trace.entries, i)

\* C4: analyze_register_changes with a register name outside
\* {a,f,b,c,d,e,h,l} ends in an InvalidRegister error and produces no row.
C4_InvalidRegisterRejected ==
    (Returned("analyze_register_changes")
     /\ call.reg \notin RegisterChoices) =>
        /\ outcome = "InvalidRegister"
        /\ result.kind = "none"

\* The number of entries of the nested schema whose pc is p.
Occurrences(entries, p) ==
    Cardinality({ i \in 1..Len(entries) :
                    HasField(entries[i], "pc") /\ entries[i].fields.pc = p })

FirstOccurrence(entries, p) ==
    CHOOSE i \in 1..Len(entries) :
        /\ HasField(entries[i], "pc") /\ entries[i].fields.pc = p
        /\ \A j \in 1..(i - 1) :
               ~(HasField(entries[j], "pc") /\ entries[j].fields.pc = p)

\* The distinct pcs occurring at least min_repeats times.
HotPcs(entries, min_repeats) ==
    { p \in { entries[i].fields.pc :
                  i \in { j \in 1..Len(entries) : HasField(entries[j], "pc") } } :
        Occurrences(entries, p) >= min_repeats }

\* p is ranked before q: higher count, or equal count and seen first.
RankedBefore(entries, p, q) ==
    \/ Occurrences(entries, p) > Occurrences(entries, q)
    \/ /\ Occurrences(entries, p) = Occurrences(entries, q)
       /\ FirstOccurrence(entries, p) < FirstOccurrence(entries, q)

ReportedPcs == { result.rows[k].pc : k \in 1..Len(result.rows) }

\* C3 as stated: find_loops reports every distinct PC whose count is at
\* least min_repeats, however many qualify, in non-increasing order of count.
C3_EveryHotPcReported ==
    Returned("find_loops") =>
        /\ HotPcs(trace.entries, call.min_repeats) \subseteq ReportedPcs
        /\ \A k \in 1..(Len(result.rows) - 1) :
               result.rows[k].count >= result.rows[k + 1].count

\* C3 amended: find_loops reports the PCs whose count is at least
\* min_repeats ranked by count descending, equal counts in order of first
\* occurrence, and reports only the first 10 of that ranking.
C3_FirstTenHotPcsReported ==
    Returned("find_loops") =>
        LET entries == trace.entries
            hot == HotPcs(entries, call.min_repeats)
            rows == result.rows
        IN  /\ outcome = "ok"
            /\ Len(rows) = Min(LoopLimit, Cardinality(hot))
            /\ \A k \in 1..Len(rows) :
                   /\ rows[k].pc \in hot
                   /\ rows[k].count = Occurrences(entries, rows[k].pc)
            /\ \A k \in 1..(Len(rows) - 1) :
                   RankedBefore(entries, rows[k].pc, rows[k + 1].pc)
            /\ \A p \in hot \ ReportedPcs :
                   \A k \in 1..Len(rows) : RankedBefore(entries, rows[k].pc, p)

\* More than 10 PCs qualify and the ranking moved a later PC to the front.
C3_Witness ==
    /\ Returned("find_loops")
    /\ Cardinality(HotPcs(trace.entries, call.min_repeats)) > LoopLimit
    /\ result.rows[1].count > result.rows[LoopLimit].count
    /\ FirstOccurrence(trace.entries, result.rows[1].pc) > 1

\* C5: detect_loops reports only PC-tuples with at least min_iterations
\* recorded window start positions, and find_loops only PCs that occur at
\* least min_repeats times in the trace.
C5_NothingBelowThreshold ==
    /\ Returned("detect_loops") =>
           (result.kind = "loops" =>
               \A k \in 1..Len(result.loops) :
                   LET loop == result.loops[k]
                   IN  /\ loop.iterations >= call.min_iterations
                       /\ Cardinality({ i \in WindowStarts(trace.entries) :
                              WindowAt(trace.entries, i) = loop.seq })
                            >= call.min_iterations)
    /\ Returned("find_loops") =>
           \A k \in 1..Len(result.rows) :
               /\ result.rows[k].count >= call.min_repeats
               /\ Occurrences(trace.entries, result.rows[k].pc)
                    >= call.min_repeats

\* The windowed detector reported one tuple and kept another one back.
C5_Witness ==
    /\ Returned("detect_loops")
    /\ call.min_iterations > 1
    /\ result.kind = "loops"
    /\ result.loops # <<>>
    /\ Len(result.loops) < Len(result.sequences)

\* Every entry has an instruction text that starts a mnemonic.
HasMnemonics(entries) ==
    \A i \in 1..Len(entries) :
        /\ HasKey(entries[i], "instruction")
        /\ \E k \in 1..Len(entries[i].instruction) :
               ~IsSpace(entries[i].instruction[k])

MnemonicCount(entries, m) ==
    Cardinality({ i \in 1..Len(entries) :
                    Mnemonic(entries[i].instruction) = m })

MnemonicFirst(entries, m) ==
    CHOOSE i \in 1..Len(entries) :
        /\ Mnemonic(entries[i].instruction) = m
        /\ \A j \in 1..(i - 1) : Mnemonic(entries[j].instruction) # m

MnemonicsOf(entries) ==
    { Mnemonic(entries[i].instruction) : i \in 1..Len(entries) }

\* The 1-based rank of m in the full distribution: count descending, equal
\* counts in first-encountered order.
MnemonicRank(entries, m) ==
    1 + Cardinality({ o \in MnemonicsOf(entries) :
          \/ MnemonicCount(entries, o) > MnemonicCount(entries, m)
          \/ /\ MnemonicCount(entries, o) = MnemonicCount(entries, m)
             /\ MnemonicFirst(entries, o) < MnemonicFirst(entries, m) })

\* C6: on a non-empty trace show_histogram prints the first top_n rows of
\* the full distribution ranked by count descending, equal counts in
\* first-encountered order, and every percentage is 100 * count divided by
\* the number of entries of the whole trace.
C6_HistogramTopRows ==
    (/\ Returned("show_histogram")
     /\ trace.entries # <<>>
     /\ HasMnemonics(trace.entries)) =>
        LET entries == trace.entries
            rows == result.rows
        IN  /\ outcome = "ok"
            /\ Len(rows) = Min(Max(call.top_n, 0),
                               Cardinality(MnemonicsOf(entries)))
            /\ \A k \in 1..Len(rows) :
                   /\ rows[k].inst \in MnemonicsOf(entries)
                   /\ MnemonicRank(entries, rows[k].inst) = k
                   /\ rows[k].count = MnemonicCount(entries, rows[k].inst)
                   /\ rows[k].percentage.den # 0
                   /\ rows[k].percentage.num * Len(entries) =
                          100 * rows[k].count * rows[k].percentage.den

\* A truncated histogram whose last printed row ties with an omitted one.
C6_Witness ==
    /\ Returned("show_histogram")
    /\ HasMnemonics(trace.entries)
    /\ Len(result.rows) = 2
    /\ result.rows[1].count = result.rows[2].count
    /\ Cardinality(MnemonicsOf(trace.entries)) = 3

\* The entries exposing register reg, as indices.
Exposing(entries, reg) ==
    { i \in 1..Len(entries) : HasField(entries[i], reg) }

\* C7: for a valid register name analyze_register_changes collects one
\* (pc, value, instruction) tuple for exactly the entries that expose the
\* register, in entry order, equal consecutive values included.
C7_EverySampleKept ==
    (Returned("analyze_register_changes")
     /\ call.reg \in RegisterChoices) =>
        LET entries == trace.entries
            exposing == Exposing(entries, call.reg)
            changes == result.changes
        IN  /\ outcome = "ok"
            /\ Len(changes) = Cardinality(exposing)
            /\ \A i \in exposing :
                   LET k == Cardinality({ j \in exposing : j <= i })
                       fields == entries[i].fields
                   IN  /\ changes[k].value = fields[call.reg]
                       /\ changes[k].pc =
                              (IF HasKey(fields, "pc") THEN fields.pc ELSE 0)
                       /\ changes[k].instruction =
                              (IF HasKey(fields, "instruction")
                               THEN fields.instruction ELSE Unknown)

\* Two consecutive samples with the same value, and an entry skipped.
C7_Witness ==
    /\ Returned("analyze_register_changes")
    /\ call.reg \in RegisterChoices
    /\ Len(result.changes) >= 2
    /\ result.changes[1].value = result.changes[2].value
    /\ Len(result.changes) < Len(trace.entries)

\* C9: on a trace without entries show_histogram, show_last_n, detect_loops
\* and find_loops end without an error and report nothing.
C9_EmptyTraceEmptyResults ==
    (pc = "returned" /\ trace.entries = <<>>) =>
        /\ outcome = "ok"
        /\ call.op = "show_histogram" =>
               outcome = "ok" /\ result.kind = "histogram"
                              /\ result.rows = <<>>
        /\ call.op = "show_last_n" =>
               outcome = "ok" /\ result.rows = <<>>
        /\ call.op = "detect_loops" =>
               outcome = "ok" /\ (result.kind = "loops" => result.loops = <<>>)
        /\ call.op = "find_loops" =>
               outcome = "ok" /\ result.rows = <<>>

\* The histogram of the empty trace was asked for with a positive top_n.
C9_Witness ==
    /\ Returned("show_histogram")
    /\ trace.entries = <<>>
    /\ call.top_n > 0
    /\ outcome = "ok"

\* C8: with metadata.buffer_capacity = 0 show_metadata reports the buffer
\* usage as undefined instead of raising a division error, and the run goes
\* on to the commands after the metadata.
C8_ZeroCapacityUsageUndefined ==
    (/\ trace.metadata.buffer_capacity = 0
     /\ call.op = "show_metadata"
     /\ pc # "show_metadata") =>
        /\ outcome = "ok"
        /\ pc = "last"
        /\ ~HasKey(result, "usage")

\* The entries a query keeps when it skips the ones that lack a field.
Complete(entries) ==
    SelectSeq(entries,
              LAMBDA e : HasKey(e, "pc") /\ HasKey(e, "instruction"))

\* The entries are in the top-level schema and no instruction text is
\* without a token: all that can be wrong with an entry is a missing field.
OnlyFieldsMissing(entries) ==
    \A i \in 1..Len(entries) :
        /\ ~HasKey(entries[i], "fields")
        /\ HasKey(entries[i], "instruction") =>
               FirstToken(entries[i].instruction) # <<>>

\* C10: when entries lack 'pc' or 'instruction', show_range,
\* find_instruction, show_histogram, detect_loops and find_address_range
\* leave just those entries out and return the result computed from the
\* remaining ones; none of them ends in an error.
C10_MissingFieldsSkipped ==
    (pc = "returned"
     /\ (OnlyFieldsMissing(trace.entries) \/ call.op = "find_address_range")) =>
        LET kept == [trace EXCEPT !.entries = Complete(trace.entries)]
        IN  /\ call.op = "show_range" =>
                   /\ outcome = "ok"
                   /\ result = show_range(kept, call.start, call.end,
                                          call.show_registers).result
            /\ call.op = "find_instruction" =>
                   /\ outcome = "ok"
                   /\ result = find_instruction(kept, call.mnemonic,
                                   call.show_registers).result
            /\ call.op = "show_histogram" =>
                   /\ outcome = "ok"
                   /\ result = show_histogram(kept, call.top_n).result
            /\ call.op = "detect_loops" =>
                   /\ outcome = "ok"
                   /\ result = detect_loops(kept, call.min_iterations).result
            /\ call.op = "find_address_range" => outcome = "ok"

====
